---- MODULE Spec2Model ----
(***************************************************************************)
(* A model of clld.web.app: the resource registration machinery            *)
(* (includeme and the configurator directives it adds), the menu item      *)
(* registry, the request context factory and the resource URL helpers.     *)
(*                                                                         *)
(* Python values are modelled as follows.  A str is a TLA+ string (with    *)
(* \o, Len and SubSeq acting on its characters).  A dict is a function     *)
(* whose DOMAIN is its key set.  A list and an OrderedDict are sequences.  *)
(* A callable is a record [fn, args] (functools.partial(fn, *args)); None  *)
(* where a callable is expected is the record None.                        *)
(***************************************************************************)
EXTENDS Integers, Sequences, FiniteSets, TLC

VARIABLES
    pc,          \* "start" before includeme(config) ran, "included" after
    settings,    \* config.registry.settings (a dict)
    RESOURCES,   \* the module-global list clld.RESOURCES
    routes,      \* the config.add_route calls made so far, in order
    views,       \* the config.add_view calls made so far, in order
    utilities,   \* named utilities of the registry: <<interface, name>> -> class
    adapters,    \* the registry.registerAdapter calls made so far, in order
    menuitems,   \* the IMenuItems utility: [registered, items (OrderedDict)]
    menu_log,    \* history: the pkg of the last register_app and the names added since
    db,          \* the rows the DBSession can see
    call         \* the operation in progress, its arguments and its outcome; Idle between operations

vars == <<pc, settings, RESOURCES, routes, views, utilities, adapters,
          menuitems, menu_log, db, call>>

(***************************************************************************)
(* Bounds of the model.                                                    *)
(***************************************************************************)
MaxRegistered == 1     \* register_resource calls
MaxDirect == 1         \* add_route_and_view calls made by the app itself
MaxMenuAdds == 2       \* add_menu_item calls after a register_app
MaxAdapters == 1       \* register_adapter calls made by the app itself

(***************************************************************************)
(* dict, str and OrderedDict helpers.                                      *)
(***************************************************************************)
EmptyDict == [k \in {} |-> ""]

DictGet(d, k, default) == IF k \in DOMAIN d THEN d[k] ELSE default

DictPop(d, k) == [j \in DOMAIN d \ {k} |-> d[j]]

DictSet(d, k, v) == [j \in DOMAIN d \cup {k} |-> IF j = k THEN v ELSE d[j]]

\* dict.update(other) / config.add_settings(other)
DictUpdate(d, other) ==
    [j \in DOMAIN d \cup DOMAIN other |-> IF j \in DOMAIN other THEN other[j] ELSE d[j]]

\* str.endswith
EndsWith(s, suffix) ==
    /\ Len(s) >= Len(suffix)
    /\ SubSeq(s, Len(s) - Len(suffix) + 1, Len(s)) = suffix

LowerCase == "abcdefghijklmnopqrstuvwxyz"
UpperCase == "ABCDEFGHIJKLMNOPQRSTUVWXYZ"

Upper(c) ==
    IF \E i \in 1..Len(LowerCase) : SubSeq(LowerCase, i, i) = c
    THEN LET i == CHOOSE j \in 1..Len(LowerCase) : SubSeq(LowerCase, j, j) = c
         IN  SubSeq(UpperCase, i, i)
    ELSE c

Lower(c) ==
    IF \E i \in 1..Len(UpperCase) : SubSeq(UpperCase, i, i) = c
    THEN LET i == CHOOSE j \in 1..Len(UpperCase) : SubSeq(UpperCase, j, j) = c
         IN  SubSeq(LowerCase, i, i)
    ELSE c

RECURSIVE LowerAll(_)
LowerAll(s) ==
    IF Len(s) = 0 THEN s ELSE Lower(SubSeq(s, 1, 1)) \o LowerAll(SubSeq(s, 2, Len(s)))

\* str.capitalize: first character upper case, the rest lower case
Capitalize(s) ==
    IF Len(s) = 0 THEN s ELSE Upper(SubSeq(s, 1, 1)) \o LowerAll(SubSeq(s, 2, Len(s)))

\* the keys of an OrderedDict, in order
Keys(od) == [i \in 1..Len(od) |-> od[i].key]

HasKey(od, k) == \E i \in 1..Len(od) : od[i].key = k

\* OrderedDict.__setitem__: a present key keeps its position, a new one goes last
ODSet(od, k, v) ==
    IF HasKey(od, k)
    THEN [i \in 1..Len(od) |-> IF od[i].key = k THEN [key |-> k, value |-> v] ELSE od[i]]
    ELSE Append(od, [key |-> k, value |-> v])

ODGet(od, k) == od[CHOOSE i \in 1..Len(od) : od[i].key = k].value

(***************************************************************************)
(* Callables.                                                              *)
(***************************************************************************)
None == [fn |-> "None", args |-> <<>>]

Partial(fn, args) == [fn |-> fn, args |-> args]

\* Python truth of a callable-or-None
Truthy(v) == v # None

(***************************************************************************)
(* clld.Resource and the built-in clld.RESOURCES.                          *)
(***************************************************************************)
Resource(name, model, interface, with_index) ==
    [name |-> name, model |-> model, interface |-> interface, with_index |-> with_index]

BuiltinResources ==
    << Resource("dataset", "Dataset", "IDataset", FALSE),
       Resource("contribution", "Contribution", "IContribution", TRUE),
       Resource("language", "Language", "ILanguage", TRUE),
       Resource("valueset", "ValueSet", "IValueSet", FALSE) >>

\* getattr(module, name, default), kept symbolic: the attribute of the module if it
\* has one of that name, the default otherwise
GetAttr(module, name, default) == "getattr(" \o module \o ", " \o name \o ", " \o default \o ")"

(***************************************************************************)
(* The configurator: config == [settings, RESOURCES, routes, views,        *)
(* utilities, adapters].  Every directive maps a config to a config.       *)
(***************************************************************************)
Config ==
    [settings |-> settings, RESOURCES |-> RESOURCES, routes |-> routes,
     views |-> views, utilities |-> utilities, adapters |-> adapters]

add_route(config, name, pattern, route_kw) ==
    [config EXCEPT !.routes = Append(@, [name |-> name, pattern |-> pattern, kw |-> route_kw])]

add_view(config, view, route_name, kw) ==
    [config EXCEPT !.views = Append(@, [view |-> view, route_name |-> route_name, kw |-> kw])]

registerUtility(config, cls, provided, name) ==
    [config EXCEPT !.utilities = DictSet(@, <<provided, name>>, cls)]

add_settings(config, other) ==
    [config EXCEPT !.settings = DictUpdate(@, other)]

\* register_cls(interface, config, route, cls), lines 172-175
register_cls(interface, config, route, cls) ==
    LET c1 == registerUtility(config, cls, interface, route)
    IN  IF ~EndsWith(route, "_alt")
        THEN registerUtility(c1, cls, interface, route \o "_alt")
        ELSE c1

register_datatable(config, route, cls) == register_cls("IDataTable", config, route, cls)

register_map(config, route, cls) == register_cls("IMap", config, route, cls)

\* list(implementedBy(cls))[0], kept symbolic
ImplementedBy(cls) == "implementedBy(" \o cls \o ")[0]"

\* cls.mimetype, kept symbolic
Mimetype(cls) == cls \o ".mimetype"

\* an argument left at its default None
NoArg == "None"

\* Python falsehood of an interface or a name: None or the empty string
Falsy(v) == v = NoArg \/ v = ""

\* register_adapter(config, cls, from_, to_=None, name=None), lines 295-298
register_adapter(config, cls, from_, to_, name) ==
    LET to_1 == IF Falsy(to_) THEN ImplementedBy(cls) ELSE to_
        name1 == IF Falsy(name) THEN Mimetype(cls) ELSE name
    IN  [config EXCEPT !.adapters =
            Append(@, [cls |-> cls, from_ |-> from_, to_ |-> to_1, name |-> name1])]

\* add_route_and_view with the default of the _alt pattern taken before the settings
\* are looked up
add_route_and_view_passed(config, route_name, route_pattern, view, kw) ==
    LET route_patterns == DictGet(config.settings, "route_patterns", EmptyDict)
        alt_route_pattern == DictGet(kw, "alt_route_pattern", route_pattern \o ".{ext}")
        pattern == DictGet(route_patterns, route_name, route_pattern)
        kw1 == DictPop(kw, "alt_route_pattern")
        factory == DictGet(kw1, "factory", None)
        kw2 == DictPop(kw1, "factory")
        route_kw == IF Truthy(factory) THEN [k \in {"factory"} |-> factory] ELSE EmptyDict
        c1 == add_route(config, route_name, pattern, route_kw)
        c2 == add_view(c1, view, route_name, kw2)
        c3 == add_route(c2, route_name \o "_alt", alt_route_pattern, route_kw)
    IN  add_view(c3, view, route_name \o "_alt", kw2)

\* add_route_and_view(config, route_name, route_pattern, view, **kw), lines 302-314
add_route_and_view(config, route_name, route_pattern, view, kw) ==
    LET route_patterns == DictGet(config.settings, "route_patterns", EmptyDict)
        pattern == DictGet(route_patterns, route_name, route_pattern)
        alt_route_pattern == DictGet(kw, "alt_route_pattern", pattern \o ".{ext}")
        kw1 == DictPop(kw, "alt_route_pattern")
        factory == DictGet(kw1, "factory", None)
        kw2 == DictPop(kw1, "factory")
        route_kw == IF Truthy(factory) THEN [k \in {"factory"} |-> factory] ELSE EmptyDict
        c1 == add_route(config, route_name, pattern, route_kw)
        c2 == add_view(c1, view, route_name, kw2)
        c3 == add_route(c2, route_name \o "_alt", alt_route_pattern, route_kw)
    IN  add_view(c3, view, route_name \o "_alt", kw2)

\* register_resource without its index route
register_resource_noindex(config, name, model, interface, with_index) ==
    LET c1 == [config EXCEPT !.RESOURCES = Append(@, Resource(name, model, interface, with_index))]
        c2 == register_adapter(c1, "excel.ExcelAdapter", interface, NoArg, NoArg)
    IN  add_route_and_view(c2, name, "/" \o name \o "s/{id:[^/\\.]+}", "resource_view",
            [k \in {"factory"} |-> Partial("ctx_factory", <<model, "rsc">>)])

\* register_resource(config, name, model, interface, with_index=False), lines 278-291
register_resource(config, name, model, interface, with_index) ==
    LET c1 == [config EXCEPT !.RESOURCES = Append(@, Resource(name, model, interface, with_index))]
        c2 == register_adapter(c1, "excel.ExcelAdapter", interface, NoArg, NoArg)
        c3 == add_route_and_view(c2, name, "/" \o name \o "s/{id:[^/\\.]+}", "resource_view",
                  [k \in {"factory"} |-> Partial("ctx_factory", <<model, "rsc">>)])
    IN  IF with_index
        THEN add_route_and_view(c3, name \o "s", "/" \o name \o "s", "index_view",
                  [k \in {"factory"} |-> Partial("ctx_factory", <<model, "index">>)])
        ELSE c3

\* one pass of the loop `for rsc in RESOURCES`, lines 339-360
IncludeResource(config, rsc) ==
    LET name == rsc.name
        model == rsc.model
        plural == name \o "s"
        c1 == IF rsc.with_index
              THEN LET factory == Partial("ctx_factory", <<model, "index">>)
                       a == add_route_and_view(config, plural, "/" \o plural, "index_view",
                                [k \in {"factory"} |-> factory])
                       b == register_datatable(a, plural,
                                GetAttr("datatables", Capitalize(plural), "DataTable"))
                   IN  register_adapter(b,
                           GetAttr("excel", Capitalize(plural), "excel.ExcelAdapter"),
                           rsc.interface, NoArg, NoArg)
              ELSE config
        kw0 == [k \in {"factory"} |-> Partial("ctx_factory", <<model, "rsc">>)]
        kw == IF model = "Dataset"
              THEN [k \in {"factory", "alt_route_pattern"} |->
                       IF k = "factory" THEN kw0.factory ELSE "/void.{ext}"]
              ELSE kw0
        pattern == IF model = "Dataset" THEN "/" ELSE "/" \o plural \o "/{id:[^/\\.]+}"
    IN  add_route_and_view(c1, name, pattern, "resource_view", kw)

RECURSIVE IncludeResources(_, _, _)
IncludeResources(config, rscs, i) ==
    IF i > Len(rscs) THEN config
    ELSE IncludeResources(IncludeResource(config, rscs[i]), rscs, i + 1)

\* the fixed routes of includeme, lines 323-336
FixedRoutes ==
    << [name |-> "legal", pattern |-> "/legal", view |-> "lambda", kw |-> [renderer |-> "legal.mako"]],
       [name |-> "_js", pattern |-> "/_js", view |-> "js", kw |-> [http_cache |-> 3600]],
       [name |-> "_raise", pattern |-> "/_raise", view |-> "_raise", kw |-> EmptyDict],
       [name |-> "_ping", pattern |-> "/_ping", view |-> "_ping", kw |-> [renderer |-> "json"]],
       [name |-> "robots", pattern |-> "/robots.txt", view |-> "robots", kw |-> EmptyDict],
       [name |-> "sitemapindex", pattern |-> "/sitemap.xml", view |-> "sitemapindex", kw |-> EmptyDict],
       [name |-> "sitemap", pattern |-> "/sitemap.{rsc}.{n}.xml", view |-> "sitemap", kw |-> EmptyDict],
       [name |-> "unapi", pattern |-> "/unapi", view |-> "unapi", kw |-> EmptyDict],
       [name |-> "olac", pattern |-> "/olac", view |-> "olac", kw |-> [renderer |-> "olac.mako"]] >>

RECURSIVE IncludeFixedRoutes(_, _)
IncludeFixedRoutes(config, i) ==
    IF i > Len(FixedRoutes) THEN config
    ELSE LET r == FixedRoutes[i]
         IN  IncludeFixedRoutes(add_route_and_view(config, r.name, r.pattern, r.view, r.kw), i + 1)

\* md5 of the file an asset spec names (lines 241-243), kept symbolic
FaviconHash(spec) == "md5(" \o spec \o ")"

\* clld.web.icon.ICONS: the names of the icons
ICONS == <<"c0000dd", "cff6600">>

\* the loop of lines 369-370: every icon is an IIcon utility under its name
RECURSIVE IncludeIcons(_, _, _)
IncludeIcons(config, icons, i) ==
    IF i > Len(icons) THEN config
    ELSE IncludeIcons(registerUtility(config, "Icon(" \o icons[i] \o ")", "IIcon", icons[i]),
                      icons, i + 1)

\* config.include('clld.web.adapters'), line 367: what the included module registers
\* is kept by that module, not by this one
include_adapters(config) == config

\* includeme(config), lines 227-371; the request factory, the database engine, the
\* event subscribers and pyramid's own static view are not part of the modelled state
includeme(config) ==
    LET c1 == registerUtility(config, "CtxFactoryQuery", "ICtxFactoryQuery", "")
        c2 == registerUtility(c1, "OlacConfig", "IOlacConfig", "")
        c3 == add_settings(c2, [k \in {"pyramid.default_locale_name"} |-> "en"])
        c4 == IF "clld.favicon" \notin DOMAIN c3.settings
              THEN add_settings(c3, [k \in {"clld.favicon"} |-> "clld:web/static/images/favicon.ico"])
              ELSE c3
        c4h == add_settings(c4, [k \in {"clld.favicon_hash"} |->
                                    FaviconHash(c4.settings["clld.favicon"])])
        c5 == IncludeFixedRoutes(c4h, 1)
        c6 == IncludeResources(c5, c5.RESOURCES, 1)
        c7 == register_map(c6, "languages", "Map")
        c8 == register_map(c7, "language", "LanguageMap")
        c9 == register_map(c8, "parameter", "ParameterMap")
        c10 == include_adapters(c9)
        c11 == IncludeIcons(c10, ICONS, 1)
    IN  registerUtility(c11, "MapMarker", "IMapMarker", "")

(***************************************************************************)
(* Menu items.                                                             *)
(***************************************************************************)
\* the pkg argument of register_app: None, or a package with its appconf.ini
\* (an absent appconf.ini is the empty dict: nothing is added to the settings)
NonePkg == [name |-> "None", appconf |-> EmptyDict]

Pkg(name, appconf) == [name |-> name, appconf |-> appconf]

DefaultMenuitemsList == <<"contributions", "parameters", "languages", "contributors">>

\* the loop of lines 219-223
RECURSIVE MenuLoop(_, _, _)
MenuLoop(items, plurals, i) ==
    IF i > Len(plurals) THEN items
    ELSE MenuLoop(ODSet(items, plurals[i], Partial("menu_item", <<plurals[i]>>)), plurals, i + 1)

\* OrderedDict(dataset=partial(menu_item, 'dataset', label='home'))
HomeMenu == <<[key |-> "dataset", value |-> Partial("menu_item", <<"dataset", "label=home">>)]>>

\* register_app(config, pkg=None), lines 178-224: the settings and the IMenuItems
\* utility it leaves; translation dirs, the static view, the scan and the imported
\* modules are not part of the modelled state
register_app(config, pkg) ==
    IF pkg = NonePkg
    THEN [config |-> config, menuitems |-> [registered |-> TRUE, items |-> HomeMenu]]
    ELSE LET cfg == IF "mako.directories_list" \in DOMAIN pkg.appconf
                    THEN DictSet(pkg.appconf, "mako.directories", pkg.appconf["mako.directories_list"])
                    ELSE pkg.appconf
             c1 == add_settings(config, cfg)
             plurals == DictGet(c1.settings, "clld.menuitems_list", DefaultMenuitemsList)
         IN  [config |-> c1,
              menuitems |-> [registered |-> TRUE, items |-> MenuLoop(HomeMenu, plurals, 1)]]

\* add_menu_item that puts the name last even when it is present
add_menu_item_move(items, name, factory) ==
    Append(SelectSeq(items, LAMBDA item : item.key # name), [key |-> name, value |-> factory])

\* add_menu_item(config, name, factory), lines 260-270, on a registered utility
add_menu_item(items, name, factory) == ODSet(items, name, factory)

(***************************************************************************)
(* The database session and queries.  A Query object is a record with its  *)
(* identity (oid): every generative method returns a new object.           *)
(***************************************************************************)
\* a mapped row; `metadata` starts as the class attribute Base.metadata; `loaded` is
\* what the query that returned it loaded eagerly, empty on the rows of the session
Row(model, id, active) ==
    [model |-> model, id |-> id, active |-> active, loaded |-> <<>>,
     metadata |-> [interface |-> "Base.metadata", model |-> "", id |-> ""]]

Query(model) == [oid |-> 1, model |-> model, filters |-> <<>>, options |-> <<>>]

Filter(q, field, value) ==
    [q EXCEPT !.oid = @ + 1, !.filters = Append(@, [field |-> field, value |-> value])]

Options(q, opts) == [q EXCEPT !.oid = @ + 1, !.options = @ \o opts]

Matching(q) ==
    {r \in db : r.model = q.model /\ \A i \in 1..Len(q.filters) :
                                        r[q.filters[i].field] = q.filters[i].value}

Return(v) == [exc |-> "", value |-> v]

Raise(e) == [exc |-> e, value |-> None]

\* Query.one()
One(q) ==
    LET rows == Matching(q)
    IN  IF rows = {} THEN Raise("NoResultFound")
        ELSE IF Cardinality(rows) > 1 THEN Raise("MultipleResultsFound")
        ELSE Return([(CHOOSE r \in rows : TRUE) EXCEPT !.loaded = q.options])

ContributionOptions ==
    << "joinedload_all(Contribution.valuesets, ValueSet.parameter)",
       "joinedload_all(Contribution.valuesets, ValueSet.values, Value.domainelement)",
       "joinedload_all(Contribution.references, ContributionReference.source)",
       "joinedload(Contribution.data)" >>

ValueSetOptions ==
    << "joinedload(ValueSet.values)", "joinedload(ValueSet.parameter)",
       "joinedload(ValueSet.language)" >>

\* refined_query of the registered ICtxFactoryQuery utility: the base class returns
\* the query itself; a derived class may return a new query
RefinedQueries == {"base", "clone", "options", "filter"}

refined_query(cls, query, model, req) ==
    CASE cls = "base" -> query
      [] cls = "clone" -> Options(query, <<>>)
      [] cls = "options" -> Options(query, <<"joinedload(custom)">>)
      [] cls = "filter" -> Filter(query, "active", "yes")

\* CtxFactoryQuery.__call__ comparing the two queries by what they select, not by identity
CtxFactoryQuery_call_byvalue(cls, model, req) ==
    IF "id" \notin DOMAIN req.matchdict THEN Raise("KeyError")
    ELSE LET query == Filter(Query(model), "id", req.matchdict["id"])
             custom_query == refined_query(cls, query, model, req)
             q1 == IF model = "Contribution" THEN Options(query, ContributionOptions) ELSE query
             q2 == IF model = "ValueSet" THEN Options(q1, ValueSetOptions) ELSE q1
         IN  IF [query EXCEPT !.oid = 0] = [custom_query EXCEPT !.oid = 0]
             THEN One(q2) ELSE One(custom_query)

\* CtxFactoryQuery.__call__(model, req), lines 118-148
CtxFactoryQuery_call(cls, model, req) ==
    IF "id" \notin DOMAIN req.matchdict THEN Raise("KeyError")
    ELSE LET query == Filter(Query(model), "id", req.matchdict["id"])
             custom_query == refined_query(cls, query, model, req)
             q1 == IF model = "Contribution" THEN Options(query, ContributionOptions) ELSE query
             q2 == IF model = "ValueSet" THEN Options(q1, ValueSetOptions) ELSE q1
         IN  IF query = custom_query THEN One(q2) ELSE One(custom_query)

\* clld.web.adapters.get_adapters(interface, ctx, req)
get_adapters(interface, ctx, req) == [interface |-> interface, model |-> ctx.model, id |-> ctx.id]

\* the index branch of ctx_factory, lines 156-159
IndexContext(model, req) ==
    IF <<"IDataTable", req.matched_route>> \in DOMAIN utilities
    THEN Return([datatable |-> utilities[<<"IDataTable", req.matched_route>>],
                 req |-> req, model |-> model])
    ELSE Raise("ComponentLookupError")

\* ctx.metadata = metadata (line 166): ctx is the object the session holds for the
\* row, so the assignment shows on the row of the session
SetMetadata(rows, ctx, metadata) ==
    {IF r.model = ctx.model /\ r.id = ctx.id THEN [r EXCEPT !.metadata = metadata] ELSE r :
        r \in rows}

\* ctx_factory that leaves the record's metadata as it is
ctx_factory_nometadata(cls, model, type_, req) ==
    IF type_ = "index"
    THEN [result |-> IndexContext(model, req), db |-> db]
    ELSE LET r == IF model = "Dataset" THEN One(Query(model))
                  ELSE CtxFactoryQuery_call(cls, model, req)
         IN  IF r.exc = "NoResultFound" THEN [result |-> Raise("HTTPNotFound"), db |-> db]
             ELSE [result |-> r, db |-> db]

\* ctx_factory without its except clause
ctx_factory_noexcept(cls, model, type_, req) ==
    IF type_ = "index"
    THEN [result |-> IndexContext(model, req), db |-> db]
    ELSE LET r == IF model = "Dataset" THEN One(Query(model))
                  ELSE CtxFactoryQuery_call(cls, model, req)
             metadata == get_adapters("IMetadata", r.value, req)
         IN  IF r.exc # "" THEN [result |-> r, db |-> db]
             ELSE [result |-> Return([r.value EXCEPT !.metadata = metadata]),
                   db |-> SetMetadata(db, r.value, metadata)]

\* ctx_factory(model, type_, req), lines 151-169: what it returns or raises, and the
\* rows of the session afterwards
ctx_factory(cls, model, type_, req) ==
    IF type_ = "index"
    THEN [result |-> IndexContext(model, req), db |-> db]
    ELSE LET r == IF model = "Dataset" THEN One(Query(model))
                  ELSE CtxFactoryQuery_call(cls, model, req)
             metadata == get_adapters("IMetadata", r.value, req)
         IN  IF r.exc = "NoResultFound" THEN [result |-> Raise("HTTPNotFound"), db |-> db]
             ELSE IF r.exc # "" THEN [result |-> r, db |-> db]
             ELSE [result |-> Return([r.value EXCEPT !.metadata = metadata]),
                   db |-> SetMetadata(db, r.value, metadata)]

(***************************************************************************)
(* ClldRequest._route.  A Python value here is a record [type, v, attrs,   *)
(* provides]: a str has its text in v and no attributes.                   *)
(***************************************************************************)
Str(s) == [type |-> "str", v |-> s, attrs |-> EmptyDict, provides |-> {}]

Obj(type, attrs, provides) == [type |-> type, v |-> "", attrs |-> attrs, provides |-> provides]

\* rsc=None
NoResource == Resource("None", "None", "None", FALSE)

\* the loop of lines 67-70: the first resource whose interface obj provides
RECURSIVE FirstProviding(_, _, _)
FirstProviding(rscs, obj, i) ==
    IF i > Len(rscs) THEN NoResource
    ELSE IF rscs[i].interface \in obj.provides THEN rscs[i]
    ELSE FirstProviding(rscs, obj, i + 1)

\* _route that sets the id even when it was passed
_route_overwrite(obj, rsc, kw) ==
    LET rsc1 == IF rsc = NoResource THEN FirstProviding(RESOURCES, obj, 1) ELSE rsc
    IN  IF rsc1 = NoResource THEN Raise("AssertionError")
        ELSE LET route == IF "ext" \in DOMAIN kw THEN rsc1.name \o "_alt" ELSE rsc1.name
                 kw1 == DictSet(kw, "id", DictGet(obj.attrs, "id", obj))
             IN  Return([route |-> route, kw |-> kw1])

\* _route(self, obj, rsc, **kw), lines 65-80
_route(obj, rsc, kw) ==
    LET rsc1 == IF rsc = NoResource THEN FirstProviding(RESOURCES, obj, 1) ELSE rsc
    IN  IF rsc1 = NoResource THEN Raise("AssertionError")
        ELSE LET route == IF "ext" \in DOMAIN kw THEN rsc1.name \o "_alt" ELSE rsc1.name
                 kw1 == IF "id" \in DOMAIN kw THEN kw
                        ELSE DictSet(kw, "id", DictGet(obj.attrs, "id", obj))
             IN  Return([route |-> route, kw |-> kw1])

(***************************************************************************)
(* Inputs.                                                                 *)
(***************************************************************************)
\* the settings the application is started with
InitialSettings ==
    { EmptyDict,
      [k \in {"route_patterns", "clld.menuitems_list"} |->
          IF k = "route_patterns"
          THEN [language |-> "/lang/{id}", about |-> "/info", units |-> "/u"]
          ELSE <<"languages", "dataset", "sources", "languages">>] }

\* the databases: one with a Dataset row, one without, one with two
Databases ==
    { { Row("Dataset", "a", "yes"), Row("Language", "a", "yes"), Row("Contribution", "a", "no") },
      { Row("ValueSet", "b", "yes"), Row("Unit", "a", "no") },
      { Row("Dataset", "a", "yes"), Row("Dataset", "b", "yes"), Row("Contribution", "b", "no") } }

\* what an application registers
ResourceDecls == { <<"unit", "Unit", "IUnit">>, <<"sentence", "Sentence", "ISentence">> }

DatatableRoutes == {"units", "units_alt"}

MapRoutes == {"units"}

\* the arguments of the application's register_adapter calls: to_ and name left at
\* their default or passed
AdapterArgs ==
    { [cls |-> "AppAdapter", from_ |-> "IUnit", to_ |-> t, name |-> n] :
         t \in {NoArg, "IIndex"}, n \in {NoArg, "text/html"} }

DirectRoutes ==
    { [name |-> "about", pattern |-> "/about", view |-> "about"],
      [name |-> "credits", pattern |-> "/credits", view |-> "credits"] }

DirectKw ==
    { EmptyDict,
      [alt_route_pattern |-> "/alt.{ext}", renderer |-> "about.mako"],
      [k \in {"factory"} |-> None],
      [k \in {"factory", "renderer"} |->
          IF k = "factory" THEN Partial("custom_factory", <<>>) ELSE "json"] }

Pkgs ==
    { NonePkg,
      Pkg("myapp", EmptyDict),
      Pkg("otherapp", [k \in {"clld.menuitems_list", "mako.directories_list"} |->
                          IF k = "clld.menuitems_list" THEN <<"languages", "sources">>
                          ELSE <<"otherapp:templates">>]) }

MenuNames == {"dataset", "languages", "about"}

MenuFactories == {Partial("about_item", <<>>), Partial("other_item", <<>>)}

\* what a matched route leaves in req.matchdict
MatchDicts == { EmptyDict, [id |-> "a"], [id |-> "b"] }

\* the objects and keywords resource_url is called with
Objects ==
    { Str("a"),
      Obj("Both", [id |-> Str("a")], {"ILanguage", "IContribution"}),
      Obj("Unit", [id |-> Str("b")], {"IUnit"}),
      Obj("Other", EmptyDict, {}) }

RouteKw ==
    { EmptyDict,
      [ext |-> Str("json")],
      [id |-> Str("zz"), _query |-> Str("q")],
      [ext |-> Str("rdf"), id |-> Str("zz")] }

(***************************************************************************)
(* The state machine.                                                      *)
(***************************************************************************)
Idle == [op |-> "idle"]

Init ==
    /\ pc = "start"
    /\ settings \in InitialSettings
    /\ RESOURCES = BuiltinResources
    /\ routes = <<>>
    /\ views = <<>>
    /\ utilities = EmptyDict
    /\ adapters = <<>>
    /\ menuitems = [registered |-> FALSE, items |-> <<>>]
    /\ menu_log = [pkg |-> NonePkg, added |-> <<>>]
    /\ db \in Databases
    /\ call = Idle

SetConfig(config) ==
    /\ settings' = config.settings
    /\ RESOURCES' = config.RESOURCES
    /\ routes' = config.routes
    /\ views' = config.views
    /\ utilities' = config.utilities
    /\ adapters' = config.adapters

Includeme ==
    /\ call = Idle
    /\ pc = "start"
    /\ pc' = "included"
    /\ SetConfig(includeme(Config))
    /\ call' = [op |-> "includeme"]
    /\ UNCHANGED <<menuitems, menu_log, db>>

RegisterResource ==
    /\ call = Idle
    /\ pc = "included"
    /\ Len(RESOURCES) < Len(BuiltinResources) + MaxRegistered
    /\ \E d \in ResourceDecls, with_index \in BOOLEAN :
          /\ SetConfig(register_resource(Config, d[1], d[2], d[3], with_index))
          /\ call' = [op |-> "register_resource", name |-> d[1], model |-> d[2],
                      interface |-> d[3], with_index |-> with_index]
    /\ UNCHANGED <<pc, menuitems, menu_log, db>>

RegisterDatatable ==
    /\ call = Idle
    /\ pc = "included"
    /\ \E route \in DatatableRoutes :
          /\ SetConfig(register_datatable(Config, route, "AppTable"))
          /\ call' = [op |-> "register_datatable", route |-> route, cls |-> "AppTable"]
    /\ UNCHANGED <<pc, menuitems, menu_log, db>>

RegisterMap ==
    /\ call = Idle
    /\ pc = "included"
    /\ \E route \in MapRoutes :
          /\ SetConfig(register_map(Config, route, "AppMap"))
          /\ call' = [op |-> "register_map", route |-> route, cls |-> "AppMap"]
    /\ UNCHANGED <<pc, menuitems, menu_log, db>>

RegisterAdapter ==
    /\ call = Idle
    /\ pc = "included"
    /\ Cardinality({i \in 1..Len(adapters) : \E a \in AdapterArgs : adapters[i].cls = a.cls})
          < MaxAdapters
    /\ \E a \in AdapterArgs :
          /\ SetConfig(register_adapter(Config, a.cls, a.from_, a.to_, a.name))
          /\ call' = [op |-> "register_adapter", cls |-> a.cls, from_ |-> a.from_,
                      to_ |-> a.to_, name |-> a.name]
    /\ UNCHANGED <<pc, menuitems, menu_log, db>>

AddRouteAndView ==
    /\ call = Idle
    /\ pc = "included"
    /\ Cardinality({i \in 1..Len(routes) : \E d \in DirectRoutes : routes[i].name = d.name})
          < MaxDirect
    /\ \E d \in DirectRoutes, kw \in DirectKw :
          /\ SetConfig(add_route_and_view(Config, d.name, d.pattern, d.view, kw))
          /\ call' = [op |-> "add_route_and_view", route_name |-> d.name,
                      route_pattern |-> d.pattern, view |-> d.view, kw |-> kw]
    /\ UNCHANGED <<pc, menuitems, menu_log, db>>

RegisterApp ==
    /\ call = Idle
    /\ pc = "included"
    /\ \E pkg \in Pkgs :
          LET r == register_app(Config, pkg)
          IN  /\ SetConfig(r.config)
              /\ menuitems' = r.menuitems
              /\ menu_log' = [pkg |-> pkg, added |-> <<>>]
              /\ call' = [op |-> "register_app", pkg |-> pkg]
    /\ UNCHANGED <<pc, db>>

AddMenuItem ==
    /\ call = Idle
    /\ pc = "included"
    /\ Len(menu_log.added) < MaxMenuAdds
    /\ \E name \in MenuNames, factory \in MenuFactories :
          IF menuitems.registered
          THEN /\ menuitems' = [menuitems EXCEPT !.items = add_menu_item(@, name, factory)]
               /\ menu_log' = [menu_log EXCEPT !.added = Append(@, name)]
               /\ call' = [op |-> "add_menu_item", name |-> name, factory |-> factory, exc |-> ""]
          ELSE /\ call' = [op |-> "add_menu_item", name |-> name, factory |-> factory,
                           exc |-> "ComponentLookupError"]
               /\ UNCHANGED <<menuitems, menu_log>>
    /\ UNCHANGED <<pc, settings, RESOURCES, routes, views, utilities, adapters, db>>

\* a request matched a route whose factory is partial(ctx_factory, model, type_)
CtxFactory ==
    /\ call = Idle
    /\ pc = "included"
    /\ \E i \in 1..Len(routes), matchdict \in MatchDicts, cls \in RefinedQueries :
          /\ "factory" \in DOMAIN routes[i].kw
          /\ routes[i].kw["factory"].fn = "ctx_factory"
          /\ LET model == routes[i].kw["factory"].args[1]
                 type_ == routes[i].kw["factory"].args[2]
                 req == [matched_route |-> routes[i].name, matchdict |-> matchdict]
                 out == ctx_factory(cls, model, type_, req)
             IN  /\ call' = [op |-> "ctx_factory", model |-> model, type_ |-> type_,
                              req |-> req, cls |-> cls, result |-> out.result]
                 /\ db' = out.db
    /\ UNCHANGED <<pc, settings, RESOURCES, routes, views, utilities, adapters,
                   menuitems, menu_log>>

\* the registered ICtxFactoryQuery utility called on its own
CtxFactoryQuery ==
    /\ call = Idle
    /\ pc = "included"
    /\ \E i \in 1..Len(RESOURCES), matchdict \in MatchDicts, cls \in RefinedQueries :
          LET req == [matched_route |-> RESOURCES[i].name, matchdict |-> matchdict]
          IN  call' = [op |-> "CtxFactoryQuery", model |-> RESOURCES[i].model, req |-> req,
                       cls |-> cls, result |-> CtxFactoryQuery_call(cls, RESOURCES[i].model, req)]
    /\ UNCHANGED <<pc, settings, RESOURCES, routes, views, utilities, adapters,
                   menuitems, menu_log, db>>

RouteCall(fn) ==
    /\ call = Idle
    /\ pc = "included"
    /\ \E obj \in Objects, i \in 0..Len(RESOURCES), kw \in RouteKw :
          LET rsc == IF i = 0 THEN NoResource ELSE RESOURCES[i]
          IN  call' = [op |-> fn, obj |-> obj, rsc |-> rsc, kw |-> kw,
                       result |-> _route(obj, rsc, kw)]
    /\ UNCHANGED <<pc, settings, RESOURCES, routes, views, utilities, adapters,
                   menuitems, menu_log, db>>

\* resource_url(obj, rsc=None, **kw), lines 94-96: the arguments of route_url
ResourceUrl == RouteCall("route_url")

\* resource_path(obj, rsc=None, **kw), lines 98-100: the arguments of route_path
ResourcePath == RouteCall("route_path")

\* the operation in progress returns to its caller
Complete ==
    /\ call # Idle
    /\ call' = Idle
    /\ UNCHANGED <<pc, settings, RESOURCES, routes, views, utilities, adapters,
                   menuitems, menu_log, db>>

Next ==
    \/ Includeme
    \/ RegisterResource
    \/ RegisterDatatable
    \/ RegisterMap
    \/ RegisterAdapter
    \/ AddRouteAndView
    \/ RegisterApp
    \/ AddMenuItem
    \/ CtxFactory
    \/ CtxFactoryQuery
    \/ ResourceUrl
    \/ ResourcePath
    \/ Complete

Spec == Init /\ [][Next]_vars

(***************************************************************************)
(* Next interleaves groups of operations that do not write what the others *)
(* read: the route directives write RESOURCES, routes, views, utilities    *)
(* and adapters and read route_patterns of the settings; register_map and  *)
(* register_adapter write IMap utilities and adapters, which no other      *)
(* operation reads; register_app and add_menu_item write menuitems and the *)
(* settings keys of appconf.ini; the operations of a request write their   *)
(* own result and the metadata of the session's rows.  Each group is       *)
(* checked under its own specification.                                    *)
(***************************************************************************)
\* Configuration of routes, views and utilities: the operations that write
\* routes, views, utilities, adapters and RESOURCES.
NextConfig ==
    \/ Includeme
    \/ RegisterResource
    \/ RegisterDatatable
    \/ AddRouteAndView
    \/ Complete

SpecConfig == Init /\ [][NextConfig]_vars

\* The registry: the directives that write utilities and adapters only.
NextRegistry ==
    \/ Includeme
    \/ RegisterDatatable
    \/ RegisterMap
    \/ RegisterAdapter
    \/ Complete

SpecRegistry == Init /\ [][NextRegistry]_vars

\* The menu: the operations that write menuitems (and the settings they read).
NextMenu ==
    \/ Includeme
    \/ RegisterApp
    \/ AddMenuItem
    \/ Complete

SpecMenu == Init /\ [][NextMenu]_vars

\* Requests: the operations of a request, and the configuration they read
\* (RESOURCES, routes, the IDataTable utilities).
NextRequest ==
    \/ Includeme
    \/ RegisterResource
    \/ RegisterDatatable
    \/ CtxFactory
    \/ CtxFactoryQuery
    \/ ResourceUrl
    \/ ResourcePath
    \/ Complete

SpecRequest == Init /\ [][NextRequest]_vars

(***************************************************************************)
(* Properties.                                                             *)
(***************************************************************************)
HasRoute(name) == \E i \in 1..Len(routes) : routes[i].name = name

\* a sequence without its repeated elements, first occurrences kept in order
RECURSIVE Dedupe(_)
Dedupe(seq) ==
    IF Len(seq) = 0 THEN <<>>
    ELSE LET front == Dedupe(SubSeq(seq, 1, Len(seq) - 1))
             last == seq[Len(seq)]
         IN  IF \E i \in 1..Len(front) : front[i] = last THEN front ELSE Append(front, last)

\* C1 as stated: after includeme, every resource declaration in RESOURCES has its
\* singular route, its plural route and the _alt variant of both.
C1_AllFourRoutes ==
    pc = "included" =>
        \A i \in 1..Len(RESOURCES) :
            /\ HasRoute(RESOURCES[i].name)
            /\ HasRoute(RESOURCES[i].name \o "_alt")
            /\ HasRoute(RESOURCES[i].name \o "s")
            /\ HasRoute(RESOURCES[i].name \o "s" \o "_alt")

\* the routes a declaration adds: two, and two more with an index
C1_Adds ==
    /\ call'.op = "register_resource" =>
          Len(routes') = Len(routes) + (IF call'.with_index THEN 4 ELSE 2)
    /\ call'.op = "includeme" =>
          Len(routes') = 2 * (Len(FixedRoutes) + Len(RESOURCES)
              + Cardinality({i \in 1..Len(RESOURCES) : RESOURCES[i].with_index}))

\* C1 amended: after includeme, every resource declaration in RESOURCES has its
\* singular route `name` and `name_alt`; it has the plural route `name + 's'` and
\* `name + 's_alt'` when it was declared with with_index true, and a declaration
\* with with_index false adds the singular pair only.
C1_RoutesOfResources ==
    /\ [](pc = "included" =>
            \A i \in 1..Len(RESOURCES) :
                /\ HasRoute(RESOURCES[i].name)
                /\ HasRoute(RESOURCES[i].name \o "_alt")
                /\ RESOURCES[i].with_index =>
                      /\ HasRoute(RESOURCES[i].name \o "s")
                      /\ HasRoute(RESOURCES[i].name \o "s" \o "_alt"))
    /\ [][C1_Adds]_vars

\* a resource registered by the application with an index, with its four routes
C1_Witness ==
    /\ pc = "included"
    /\ Len(RESOURCES) > Len(BuiltinResources)
    /\ RESOURCES[Len(RESOURCES)].with_index
    /\ HasRoute(RESOURCES[Len(RESOURCES)].name \o "s" \o "_alt")
    /\ HasRoute(RESOURCES[Len(RESOURCES)].name \o "_alt")

\* what C2 says add_route_and_view registers, given the pattern of the _alt route
\* when no alt_route_pattern is passed
C2_Registers(c, default_alt) ==
    LET effective ==
            IF "route_patterns" \in DOMAIN settings /\ c.route_name \in DOMAIN settings["route_patterns"]
            THEN settings["route_patterns"][c.route_name]
            ELSE c.route_pattern
        alt == IF "alt_route_pattern" \in DOMAIN c.kw THEN c.kw["alt_route_pattern"]
               ELSE IF default_alt = "effective" THEN effective \o ".{ext}"
               ELSE c.route_pattern \o ".{ext}"
        route_kw == IF "factory" \in DOMAIN c.kw /\ c.kw["factory"] # None
                    THEN [k \in {"factory"} |-> c.kw["factory"]] ELSE EmptyDict
        view_kw == [k \in DOMAIN c.kw \ {"alt_route_pattern", "factory"} |-> c.kw[k]]
    IN  /\ routes' = routes \o
               << [name |-> c.route_name, pattern |-> effective, kw |-> route_kw],
                  [name |-> c.route_name \o "_alt", pattern |-> alt, kw |-> route_kw] >>
        /\ views' = views \o
               << [view |-> c.view, route_name |-> c.route_name, kw |-> view_kw],
                  [view |-> c.view, route_name |-> c.route_name \o "_alt", kw |-> view_kw] >>

\* C2 as stated: a call of add_route_and_view adds exactly the routes route_name and
\* route_name_alt with the same view, view keywords and factory; route_name has the
\* pattern of settings['route_patterns'] if there is one and the passed one otherwise;
\* the _alt route has alt_route_pattern, or else the passed pattern plus '.{ext}'.
C2_AltFromPassedPattern ==
    [][call'.op = "add_route_and_view" => C2_Registers(call', "passed")]_vars

\* C2 amended: as stated, except that without alt_route_pattern the _alt route has
\* the effective pattern of route_name (the settings' one if there is one) plus '.{ext}'.
C2_AltFromEffectivePattern ==
    [][call'.op = "add_route_and_view" => C2_Registers(call', "effective")]_vars

\* add_route_and_view was called for a route the settings give a pattern, and without
\* alt_route_pattern
C2_Witness ==
    /\ call.op = "add_route_and_view"
    /\ "route_patterns" \in DOMAIN settings
    /\ call.route_name \in DOMAIN settings["route_patterns"]
    /\ "alt_route_pattern" \notin DOMAIN call.kw
    /\ "factory" \in DOMAIN call.kw
    /\ HasRoute(call.route_name \o "_alt")

\* the rows of db as ctx_factory returns them: loaded with the options and with
\* metadata set to the IMetadata adapters
IsRecordOf(value, model) ==
    /\ value.model = model
    /\ \E r \in db : r.model = model /\ r.id = value.id /\ r.active = value.active
    /\ value.metadata = [interface |-> "IMetadata", model |-> model, id |-> value.id]

\* C3: the context ctx_factory returns is, for type_ 'index', the IDataTable utility
\* registered under the matched route's name called with (req, model); for any other
\* type_ a record of model (the only Dataset row, or the record with id
\* req.matchdict['id']) whose metadata is set to its IMetadata adapters.
C3_Context ==
    (call.op = "ctx_factory" /\ call.result.exc = "") =>
        IF call.type_ = "index"
        THEN /\ <<"IDataTable", call.req.matched_route>> \in DOMAIN utilities
             /\ call.result.value =
                   [datatable |-> utilities[<<"IDataTable", call.req.matched_route>>],
                    req |-> call.req, model |-> call.model]
        ELSE /\ IsRecordOf(call.result.value, call.model)
             /\ IF call.model = "Dataset"
                THEN \A r \in db : r.model = "Dataset" => r.id = call.result.value.id
                ELSE call.result.value.id = call.req.matchdict["id"]

\* a record other than the Dataset was returned as the context
C3_Witness ==
    /\ call.op = "ctx_factory"
    /\ call.type_ = "rsc"
    /\ call.model = "Language"
    /\ call.result.exc = ""
    /\ call.result.value.metadata.interface = "IMetadata"

\* C4: CtxFactoryQuery.__call__ returns the one record of model with id
\* req.matchdict['id'] that the query selects; when refined_query returned the query
\* itself the default options are applied (for Contribution and ValueSet only), when
\* it returned another query that query is used with its own options only.
C4_QueryResult ==
    (call.op = "CtxFactoryQuery" /\ "id" \in DOMAIN call.req.matchdict) =>
        LET query == Filter(Query(call.model), "id", call.req.matchdict["id"])
            custom == refined_query(call.cls, query, call.model, call.req)
            used == IF custom = query THEN query ELSE custom
            options ==
                IF custom # query THEN custom.options
                ELSE IF call.model = "Contribution" THEN ContributionOptions
                ELSE IF call.model = "ValueSet" THEN ValueSetOptions
                ELSE <<>>
            rows == Matching(used)
        IN  /\ call.result.exc = "" <=> Cardinality(rows) = 1
            /\ call.result.exc = "NoResultFound" <=> rows = {}
            /\ call.result.exc = "" =>
                  /\ call.result.value.model = call.model
                  /\ call.result.value.id = call.req.matchdict["id"]
                  /\ [call.result.value EXCEPT !.loaded = <<>>] \in rows
                  /\ call.result.value.loaded = options

\* a derived class returned a new query for a Contribution: no default options
C4_Witness ==
    /\ call.op = "CtxFactoryQuery"
    /\ call.cls = "clone"
    /\ call.model = "Contribution"
    /\ call.result.exc = ""
    /\ call.result.value.loaded = <<>>

\* C5: resource_url and resource_path resolve the route as follows: with rsc None the
\* resource is the first of RESOURCES whose interface obj provides, and the call fails
\* if there is none; the route is rsc.name + '_alt' iff 'ext' is a keyword; the id is
\* kw['id'] if passed, else obj.id if obj has one, else obj itself.
C5_Route ==
    call.op \in {"route_url", "route_path"} =>
        LET providing == {i \in 1..Len(RESOURCES) : RESOURCES[i].interface \in call.obj.provides}
            rsc == IF call.rsc # NoResource THEN call.rsc
                   ELSE RESOURCES[CHOOSE i \in providing : \A j \in providing : i <= j]
        IN  IF call.rsc = NoResource /\ providing = {}
            THEN call.result.exc = "AssertionError"
            ELSE /\ call.result.exc = ""
                 /\ call.result.value.route =
                       IF "ext" \in DOMAIN call.kw THEN rsc.name \o "_alt" ELSE rsc.name
                 /\ DOMAIN call.result.value.kw = DOMAIN call.kw \cup {"id"}
                 /\ \A k \in DOMAIN call.kw : call.result.value.kw[k] = call.kw[k]
                 /\ "id" \notin DOMAIN call.kw =>
                       call.result.value.kw["id"] =
                           IF "id" \in DOMAIN call.obj.attrs THEN call.obj.attrs["id"] ELSE call.obj

\* rsc was looked up for an object providing the interfaces of two resources, with ext
C5_Witness ==
    /\ call.op = "route_url"
    /\ call.rsc = NoResource
    /\ call.obj.provides = {"ILanguage", "IContribution"}
    /\ "ext" \in DOMAIN call.kw
    /\ call.result.exc = ""
    /\ call.result.value.route = "contribution_alt"

\* C6: for a type_ other than 'index', when no record of the model has the requested
\* id (or there is no Dataset row) ctx_factory raises HTTPNotFound; NoResultFound never
\* reaches the caller, and a context that is returned is a record with metadata set.
C6_NotFound ==
    (call.op = "ctx_factory" /\ call.type_ # "index") =>
        /\ call.result.exc # "NoResultFound"
        /\ (call.model = "Dataset" /\ ~\E r \in db : r.model = "Dataset")
              => call.result.exc = "HTTPNotFound"
        /\ (/\ call.model # "Dataset"
            /\ "id" \in DOMAIN call.req.matchdict
            /\ ~\E r \in db : r.model = call.model /\ r.id = call.req.matchdict["id"])
              => call.result.exc = "HTTPNotFound"
        /\ call.result.exc = "" =>
              /\ call.result.value # None
              /\ call.result.value.metadata.interface = "IMetadata"

\* a request for a record that is not in the database
C6_Witness ==
    /\ call.op = "ctx_factory"
    /\ call.type_ = "rsc"
    /\ call.model = "Contribution"
    /\ "id" \in DOMAIN call.req.matchdict
    /\ ~\E r \in db : r.model = "Contribution" /\ r.id = call.req.matchdict["id"]
    /\ call.result.exc = "HTTPNotFound"

\* what settings['clld.menuitems_list'] is, with its default
MenuitemsList == DictGet(settings, "clld.menuitems_list", DefaultMenuitemsList)

\* each add_menu_item call keeps every item and its position, replaces only the
\* factory of a present name, puts a new name last
C7_AddKeeps ==
    (call'.op = "add_menu_item" /\ call'.exc = "") =>
        /\ menuitems'.registered
        /\ Len(menuitems'.items) =
              Len(menuitems.items) + (IF HasKey(menuitems.items, call'.name) THEN 0 ELSE 1)
        /\ \A i \in 1..Len(menuitems.items) :
              /\ menuitems'.items[i].key = menuitems.items[i].key
              /\ menuitems.items[i].key # call'.name => menuitems'.items[i] = menuitems.items[i]
        /\ ODGet(menuitems'.items, call'.name) = call'.factory

\* C7 as stated: after register_app and any add_menu_item calls the menu has 'dataset'
\* first, then the plurals of settings['clld.menuitems_list'] in that order, then the
\* added names in the order of their first addition; each add_menu_item keeps the
\* items and their positions.
C7_MenuOrder ==
    /\ [](menuitems.registered =>
            LET base == <<"dataset">> \o MenuitemsList
                new == SelectSeq(Dedupe(menu_log.added),
                                 LAMBDA n : ~\E i \in 1..Len(base) : base[i] = n)
            IN  Keys(menuitems.items) = base \o new)
    /\ [][C7_AddKeeps]_vars

\* C7 amended: after register_app with a package and any add_menu_item calls the
\* menu has 'dataset' first, then the names of settings['clld.menuitems_list'] not
\* yet present, in the order of their first occurrence, then the added names not yet
\* present in the order of their first addition; after register_app without a
\* package (pkg None) the settings' names are left out.  Each add_menu_item keeps
\* the items and their positions and replaces only the factory of a present name.
C7_MenuOrderOfPackage ==
    /\ [](menuitems.registered =>
            Keys(menuitems.items) =
                Dedupe(<<"dataset">>
                       \o (IF menu_log.pkg = NonePkg THEN <<>> ELSE MenuitemsList)
                       \o menu_log.added))
    /\ [][C7_AddKeeps]_vars

\* after register_app with a package, a new name and then a listed name were added
C7_Witness ==
    /\ menuitems.registered
    /\ menu_log.pkg # NonePkg
    /\ menu_log.added = <<"about", "languages">>
    /\ ODGet(menuitems.items, "languages") \in MenuFactories
    /\ Keys(menuitems.items)[Len(menuitems.items)] = "about"

====
